---- MODULE Spec2Model ----
(***************************************************************************)
(* FriendChess server (src/server.js): the room registry `games`, the      *)
(* socket.io handlers join / chat / move / disconnect and the HTTP route   *)
(* /create/:mode, as a state machine.  Every handler is synchronous (no    *)
(* await, no callback between its first and last statement), so each one   *)
(* is one action.                                                          *)
(*                                                                         *)
(* chess.js is an external library.  The model keeps the part of it the    *)
(* server calls (turn, get, move) for the pawns of the e-file: white e2,   *)
(* black e7.  Every other proposal is one the validator rejects.           *)
(* board.move is taken to return null on an illegal move, which is what    *)
(* the `if (move)` of line 214 is written against.                         *)
(***************************************************************************)
EXTENDS Integers, Sequences, FiniteSets, TLC

(* ------------------------------ bounds -------------------------------- *)
MaxConns == 3
MaxRooms == 2
MaxSeconds == 2

Conns == 1..MaxConns
\* two connections, enough to take both seats of a room
RegistryConns == {1, 2}
RoomIds == 1..MaxRooms
Modes == {"normal", "blitz", "rapid", "stopwatch", "analyse", "bullet"}
TimedModes == {"blitz"}
Deltas == {1500}
Xs == {4}
Ys == 0..7
Steps == {-6, -2, -1, 1, 2, 6}
Msgs == {"hi"}

(* --------------------------- program values --------------------------- *)
Null == [null |-> TRUE]
Undefined == "undefined"
MsPerSecond == 1000
Files == <<"a", "b", "c", "d", "e", "f", "g", "h">>

VARIABLES games, now, out, born
\* born[r] is no state of the server: it keeps the Date.now() at which the
\* room now stored under r was created, for the claims about the clock
vars == <<games, now, out, born>>

(* ------------------------------ helpers ------------------------------- *)
\* xy_to_uci: [x, y] -> file letter and rank y + 1
xy_to_uci(pos) == <<Files[pos[1] + 1], pos[2] + 1>>

\* the number that stands for mode_time's null
NullTime == -1

mode_time(mode) ==
    IF mode = "blitz" THEN 5 * 60
    ELSE IF mode = "rapid" THEN 10 * 60
    ELSE IF mode = "stopwatch" THEN 0
    ELSE NullTime

\* the clock that only null switches off
StartClockUnlessNull(mode) ==
    LET start_time == mode_time(mode)
    IN  IF start_time # NullTime
        THEN [white |-> start_time, black |-> start_time]
        ELSE Null

\* start_time ? { white, black } : null   (0 and null are both falsy)
StartClock(mode) ==
    LET start_time == mode_time(mode)
    IN  IF start_time # NullTime /\ start_time # 0
        THEN [white |-> start_time, black |-> start_time]
        ELSE Null

(* ------------------------------ chess.js ------------------------------ *)
WhitePawn == [type |-> "p", color |-> "w"]
BlackPawn == [type |-> "p", color |-> "b"]

\* new Chess(): white to move
NewChess == [turn |-> "w", placed |-> (<<"e", 2>> :> WhitePawn) @@ (<<"e", 7>> :> BlackPawn)]

BoardTurn(board) == board.turn

BoardGet(board, sq) == IF sq \in DOMAIN board.placed THEN board.placed[sq] ELSE Null

Other(turn) == IF turn = "w" THEN "b" ELSE "w"

PawnLegal(board, from, to) ==
    LET dir == IF board.turn = "w" THEN 1 ELSE -1
        home == IF board.turn = "w" THEN 2 ELSE 7
        mid == <<from[1], from[2] + dir>>
    IN  /\ from \in DOMAIN board.placed
        /\ board.placed[from].color = board.turn
        /\ board.placed[from].type = "p"
        /\ to[1] = from[1]
        /\ to[2] \in 1..8
        /\ to \notin DOMAIN board.placed
        /\ \/ to[2] = from[2] + dir
           \/ /\ from[2] = home
              /\ to[2] = from[2] + 2 * dir
              /\ mid \notin DOMAIN board.placed

\* board.move({from, to, promotion}): the move made, or null
BoardMove(board, from, to, promo) ==
    IF PawnLegal(board, from, to)
    THEN LET last == to[2] = (IF board.turn = "w" THEN 8 ELSE 1)
             piece == IF last /\ promo # "" THEN [type |-> promo, color |-> board.turn]
                      ELSE board.placed[from]
             rest == [s \in DOMAIN board.placed \ {from} |-> board.placed[s]]
         IN  [ok |-> TRUE,
              san |-> [sq |-> to, promotion |-> IF last THEN promo ELSE ""],
              board |-> [turn |-> Other(board.turn), placed |-> (to :> piece) @@ rest]]
    ELSE [ok |-> FALSE, san |-> Null, board |-> board]

(* ------------------------------- rooms -------------------------------- *)
\* the room /create/:mode stores
NewGame(mode, t) ==
    [board |-> NewChess,
     players |-> << >>,
     mode |-> mode,
     time |-> StartClock(mode),
     last_move_time |-> t,
     move_list |-> << >>]


\* the seat test off by one
HasFreeSeatOrTwo(players) == Cardinality(DOMAIN players) <= 2

\* Object.keys(game.players).length < 2
HasFreeSeat(players) == Cardinality(DOMAIN players) < 2

\* the default colour of an empty room exchanged: black first
AssignColorBlackFirst(players) ==
    IF \E c \in DOMAIN players : players[c] = "black" THEN "white" ELSE "black"

\* the colour that looks for a black seat instead of a white one
AssignColorByBlack(players) ==
    IF \E c \in DOMAIN players : players[c] = "black" THEN "black" ELSE "white"

\* Object.values(game.players).includes("white") ? "black" : "white"
AssignColor(players) ==
    IF \E c \in DOMAIN players : players[c] = "white" THEN "black" ELSE "white"

\* game.players[socket.id] = color
Seat(players, c, color) == (c :> color) @@ players

\* every seat of the room deleted
UnseatAll(players, c) == << >>

\* delete game.players[socket.id]
Unseat(players, c) == [d \in DOMAIN players \ {c} |-> players[d]]

\* game.players[socket.id], undefined when the socket holds no seat
ColorOf(players, c) == IF c \in DOMAIN players THEN players[c] ELSE Undefined

\* the turn check that lets every seated colour through
TurnAllowsAnySeat(board, color) == color # Undefined

\* the turn check with the two colours exchanged
TurnAllowsSwapped(board, color) ==
    ~ \/ (BoardTurn(board) = "w" /\ color # "black")
      \/ (BoardTurn(board) = "b" /\ color # "white")

\* the turn check of the move handler: TRUE when the handler goes on
TurnAllows(board, color) ==
    ~ \/ (BoardTurn(board) = "w" /\ color # "white")
      \/ (BoardTurn(board) = "b" /\ color # "black")

\* the elapsed seconds rounded up
ElapsedCeil(game, t) == (t - game.last_move_time + MsPerSecond - 1) \div MsPerSecond

\* Math.floor((now - game.last_move_time) / 1000)
Elapsed(game, t) == (t - game.last_move_time) \div MsPerSecond

\* the clock update that forgets to restart the measurement
ClockUpdateNoRestart(game, color, t) ==
    IF game.time # Null
    THEN [game EXCEPT !.time[color] = @ - Elapsed(game, t)]
    ELSE game

\* if (game.time) { game.time[color] -= elapsed; game.last_move_time = now }
ClockUpdate(game, color, t) ==
    IF game.time # Null
    THEN [game EXCEPT !.time[color] = @ - Elapsed(game, t), !.last_move_time = t]
    ELSE game

\* the notation put at the front of the list
PushMoveFront(move_list, san) == <<san>> \o move_list

\* game.move_list.push(move.san)
PushMove(move_list, san) == Append(move_list, san)

\* the automatic queen promotion
Promo(board, uci_from, uci_to) ==
    LET piece == BoardGet(board, uci_from)
    IN  IF /\ piece # Null
           /\ piece.type = "p"
           /\ \/ (piece.color = "w" /\ uci_to[2] = 8)
              \/ (piece.color = "b" /\ uci_to[2] = 1)
        THEN "q" ELSE ""

\* what a handler emits
ToSocket(c, event, data) == [to |-> <<"socket", c>>, event |-> event, data |-> data]
ToRoom(r, event, data) == [to |-> <<"room", r>>, event |-> event, data |-> data]

(* ------------------------------ actions ------------------------------- *)
Init ==
    /\ games = [r \in RoomIds |-> Null]
    /\ now = 0
    /\ out = << >>
    /\ born = [r \in RoomIds |-> 0]

\* Date.now() moves on between two events
Tick(d) ==
    /\ now + d <= MaxSeconds * MsPerSecond
    /\ now' = now + d
    /\ out' = << >>
    /\ UNCHANGED <<games, born>>

\* app.get("/create/:mode")
Create(r, mode) ==
    /\ games' = [games EXCEPT ![r] = NewGame(mode, now)]
    /\ born' = [born EXCEPT ![r] = now]
    /\ out' = << >>
    /\ UNCHANGED now

\* the join handler that restarts the clock's measurement for the joiner
JoinResultRestartsClock(game, c, r) ==
    IF HasFreeSeat(game.players)
    THEN LET color == AssignColor(game.players)
         IN  [game |-> [game EXCEPT !.players = Seat(game.players, c, color),
                                    !.last_move_time = now],
              out |-> <<ToSocket(c, "player",
                                 [color |-> color, mode |-> game.mode, time |-> game.time]),
                        ToRoom(r, "chat", [color |-> color, text |-> "ist beigetreten"])>>]
    ELSE [game |-> game, out |-> <<ToSocket(c, "full", [flag |-> TRUE])>>]

\* the join handler on an existing room: the room afterwards, what was emitted
JoinResult(game, c, r) ==
    IF HasFreeSeat(game.players)
    THEN LET color == AssignColor(game.players)
         IN  [game |-> [game EXCEPT !.players = Seat(game.players, c, color)],
              out |-> <<ToSocket(c, "player",
                                 [color |-> color, mode |-> game.mode, time |-> game.time]),
                        ToRoom(r, "chat", [color |-> color, text |-> "ist beigetreten"])>>]
    ELSE [game |-> game, out |-> <<ToSocket(c, "full", [flag |-> TRUE])>>]

\* what the join handler emits when the registry holds no such room
JoinMissing(c) == <<ToSocket(c, "full", [flag |-> TRUE])>>

\* socket.on("join")
Join(c, r) ==
    /\ IF games[r] = Null
       THEN /\ out' = JoinMissing(c)
            /\ UNCHANGED games
       ELSE LET res == JoinResult(games[r], c, r)
            IN  /\ games' = [games EXCEPT ![r] = res.game]
                /\ out' = res.out
    /\ UNCHANGED <<now, born>>

\* the chat handler on an existing room: the room afterwards, what was emitted
ChatResult(game, c, r, msg) ==
    [game |-> game,
     out |-> <<ToRoom(r, "chat", [color |-> ColorOf(game.players, c), msg |-> msg])>>]

\* socket.on("chat")
Chat(c, r, msg) ==
    /\ IF games[r] = Null
       THEN /\ out' = << >>
            /\ UNCHANGED games
       ELSE LET res == ChatResult(games[r], c, r, msg)
            IN  /\ games' = [games EXCEPT ![r] = res.game]
                /\ out' = res.out
    /\ UNCHANGED <<now, born>>

\* the move handler on an existing room at time t: the room afterwards, what
\* was emitted
\* the move handler announcing the side that was to move before the move
MoveResultStaleTurn(game, r, c, from, to, t) ==
    LET board == game.board
        color == ColorOf(game.players, c)
    IN  IF ~TurnAllows(board, color)
        THEN [game |-> game, out |-> << >>]
        ELSE LET timed == ClockUpdate(game, color, t)
                 uci_from == xy_to_uci(from)
                 uci_to == xy_to_uci(to)
                 promo == Promo(board, uci_from, uci_to)
                 move == BoardMove(board, uci_from, uci_to, promo)
             IN  IF move.ok
                 THEN [game |-> [timed EXCEPT !.board = move.board,
                                              !.move_list = PushMove(@, move.san)],
                       out |-> <<ToRoom(r, "move",
                                  [from |-> from, to |-> to,
                                   next_turn |-> IF BoardTurn(board) = "w"
                                                 THEN "white" ELSE "black",
                                   last_move |-> [from |-> from, to |-> to],
                                   time |-> timed.time])>>]
                 ELSE [game |-> timed, out |-> << >>]

MoveResult(game, r, c, from, to, t) ==
    LET board == game.board
        color == ColorOf(game.players, c)
    IN  IF ~TurnAllows(board, color)
        THEN [game |-> game, out |-> << >>]
        ELSE LET timed == ClockUpdate(game, color, t)
                 uci_from == xy_to_uci(from)
                 uci_to == xy_to_uci(to)
                 promo == Promo(board, uci_from, uci_to)
                 move == BoardMove(board, uci_from, uci_to, promo)
             IN  IF move.ok
                 THEN [game |-> [timed EXCEPT !.board = move.board,
                                              !.move_list = PushMove(@, move.san)],
                       out |-> <<ToRoom(r, "move",
                                  [from |-> from, to |-> to,
                                   next_turn |-> IF BoardTurn(move.board) = "w"
                                                 THEN "white" ELSE "black",
                                   last_move |-> [from |-> from, to |-> to],
                                   time |-> timed.time])>>]
                 ELSE [game |-> timed, out |-> << >>]

\* socket.on("move")
Move(c, r, from, to) ==
    /\ IF games[r] = Null
       THEN /\ out' = << >>
            /\ UNCHANGED games
       ELSE LET res == MoveResult(games[r], r, c, from, to, now)
            IN  /\ games' = [games EXCEPT ![r] = res.game]
                /\ out' = res.out
    /\ UNCHANGED <<now, born>>

\* the body of the disconnect handler's loop for one room of the registry
LeaveResult(game, c, r) ==
    IF game # Null /\ c \in DOMAIN game.players
    THEN [game |-> [game EXCEPT !.players = Unseat(@, c)],
          out |-> <<ToRoom(r, "chat", [color |-> game.players[c], text |-> "hat verlassen"])>>]
    ELSE [game |-> game, out |-> << >>]

\* what the loop emits from room r on, in the order Object.entries visits
RECURSIVE LeftNotices(_, _, _)
LeftNotices(g, c, r) ==
    IF r > MaxRooms THEN << >>
    ELSE LeaveResult(g[r], c, r).out \o LeftNotices(g, c, r + 1)

\* the disconnect handler on the registry g: the registry afterwards, what
\* was emitted
DisconnectResult(g, c) ==
    [games |-> [r \in RoomIds |-> LeaveResult(g[r], c, r).game],
     out |-> LeftNotices(g, c, 1)]

\* socket.on("disconnect")
Disconnect(c) ==
    /\ games' = DisconnectResult(games, c).games
    /\ out' = DisconnectResult(games, c).out
    /\ UNCHANGED <<now, born>>

\* the moves a client proposes: a square of the e-file and one some ranks away
Proposals ==
    {p \in (Xs \X Ys) \X (Xs \X Ys) : p[2][2] - p[1][2] \in Steps}

\* the opening move e2-e4
Opening == {<<<<4, 1>>, <<4, 3>>>>}

\* the events that can arrive: connections cs, rooms rs, modes ms, clock
\* steps ds, proposed moves ps
Events(cs, rs, ms, ds, ps) ==
    \/ \E d \in ds : Tick(d)
    \/ \E r \in rs, mode \in ms : Create(r, mode)
    \/ \E c \in cs, r \in rs : Join(c, r)
    \/ \E c \in cs, r \in rs, msg \in Msgs : Chat(c, r, msg)
    \/ \E c \in cs, r \in rs, p \in ps : Move(c, r, p[1], p[2])
    \/ \E c \in cs : Disconnect(c)

\* one room with a clock, and time passing
Next == Events(Conns, {1}, TimedModes, Deltas, Proposals)
Spec == Init /\ [][Next]_vars

\* every room of the registry, all created at time 0, the opening move only
NextRegistry == Events(RegistryConns, RoomIds, TimedModes, {}, Opening)
SpecRegistry == Init /\ [][NextRegistry]_vars

\* one room created in any mode at time 0, the opening move only
NextModes == Events(RegistryConns, {1}, Modes, {}, Opening)
SpecModes == Init /\ [][NextModes]_vars

(* ------------------------- what the claims use ------------------------ *)
Exists(r) == games[r] # Null
Seated(c, r) == Exists(r) /\ c \in DOMAIN games[r].players
SideToMove(board) == IF BoardTurn(board) = "w" THEN "white" ELSE "black"
OtherColor(color) == IF color = "white" THEN "black" ELSE "white"

\* the Move Validator accepts proposal p, translated, on room r's board
Accepts(r, p) == PawnLegal(games[r].board, xy_to_uci(p[1]), xy_to_uci(p[2]))

\* connection c is seated in room r with the colour that is to move
HasTurn(c, r) == Seated(c, r) /\ games[r].players[c] = SideToMove(games[r].board)

\* room r after a move event of c proposing p arrives now, and what is emitted
AfterMove(c, r, p) == MoveResult(games[r], r, c, p[1], p[2], now)

\* the room g2 is g with the board advanced and one entry more in the history
Applied(g, g2) ==
    /\ g2.board # g.board
    /\ Len(g2.move_list) = Len(g.move_list) + 1

\* the room g2 has g's board and history
NotApplied(g, g2) ==
    /\ g2.board = g.board
    /\ g2.move_list = g.move_list

\* C1: in every reachable room state, a move event advances the board and
\* appends to the history if and only if the sender holds a seat in the
\* room, the seat's colour is the side to move, and the validator accepts
\* the translated move.
C1_TurnGating ==
    \A r \in RoomIds : Exists(r) =>
        \A c \in Conns, p \in Proposals :
            IF HasTurn(c, r) /\ Accepts(r, p)
            THEN Applied(games[r], AfterMove(c, r, p).game)
            ELSE NotApplied(games[r], AfterMove(c, r, p).game)

C1_Witness ==
    /\ Exists(1)
    /\ Len(games[1].move_list) = 2
    /\ Len(out) = 1
    /\ out[1].event = "move"
    /\ \E c \in Conns : Seated(c, 1) /\ ~HasTurn(c, 1)
    /\ \E c \in Conns, p \in Proposals : HasTurn(c, 1) /\ Accepts(1, p)

\* C2: a move of the seated side to move that the validator rejects changes
\* nothing of the room (board, history, both clocks, lastTick) and emits
\* nothing.
C2_RejectedMoveChangesNothing ==
    \A r \in RoomIds : Exists(r) =>
        \A c \in Conns, p \in Proposals :
            (HasTurn(c, r) /\ ~Accepts(r, p)) =>
                AfterMove(c, r, p) = [game |-> games[r], out |-> << >>]

\* a sequence is the other one's beginning
IsPrefix(s, t) == Len(s) <= Len(t) /\ SubSeq(t, 1, Len(s)) = s

\* this step stored a new room under r
Created(r) == \E mode \in Modes : games'[r] = NewGame(mode, now)

\* C4: every accepted move adds exactly one entry, its notation, at the end
\* of the room's moveHistory, nothing else changes the history, and the side
\* to move is white when the history's length is even and black when it is odd.
C4_History ==
    /\ [](\A r \in RoomIds : Exists(r) =>
            (SideToMove(games[r].board) = "white") = (Len(games[r].move_list) % 2 = 0))
    /\ [][\A r \in RoomIds : (Exists(r) /\ ~Created(r)) =>
            IF games'[r].board # games[r].board
            THEN /\ Len(games'[r].move_list) = Len(games[r].move_list) + 1
                 /\ IsPrefix(games[r].move_list, games'[r].move_list)
                 /\ LET san == games'[r].move_list[Len(games'[r].move_list)]
                    IN  /\ san.sq \in DOMAIN games'[r].board.placed
                        /\ san.sq \notin DOMAIN games[r].board.placed
            ELSE games'[r].move_list = games[r].move_list]_vars

C4_Witness ==
    /\ Exists(1)
    /\ Len(games[1].move_list) = 3
    /\ SideToMove(games[1].board) = "black"

\* C5: in a room with a clock, an accepted move of colour C made e
\* milliseconds after lastTick takes the whole seconds of e off remaining[C],
\* leaves the other colour's remaining time alone and sets lastTick to the
\* time of the move.
C5_ClockCharge ==
    \A r \in RoomIds : (Exists(r) /\ games[r].time # Null) =>
        \A c \in Conns, p \in Proposals :
            (HasTurn(c, r) /\ Accepts(r, p)) =>
                LET g == games[r]
                    g2 == AfterMove(c, r, p).game
                    C == g.players[c]
                    e == now - g.last_move_time
                    d == g.time[C] - g2.time[C]
                IN  /\ d * 1000 <= e
                    /\ e < (d + 1) * 1000
                    /\ g2.time[OtherColor(C)] = g.time[OtherColor(C)]
                    /\ g2.last_move_time = now

\* a move was applied a second or more after lastTick
C5_Witness ==
    /\ Exists(1)
    /\ Len(out) = 1
    /\ out[1].event = "move"
    /\ out[1].data.time.white = 299
    /\ games[1].last_move_time = now
    /\ now >= 1000

SeatCount(r) == Cardinality(DOMAIN games[r].players)

\* C3: every room has at most 2 seated connections, and no two seated
\* connections of one room hold the same colour.
C3_SeatInvariant ==
    \A r \in RoomIds : Exists(r) =>
        /\ SeatCount(r) <= 2
        /\ \A c \in DOMAIN games[r].players :
              /\ games[r].players[c] \in {"white", "black"}
              /\ \A d \in DOMAIN games[r].players :
                    c # d => games[r].players[c] # games[r].players[d]

\* a full room has just turned a third connection away
C3_Witness ==
    /\ Exists(1)
    /\ SeatCount(1) = 2
    /\ Len(games[1].move_list) >= 1
    /\ Len(out) = 1
    /\ out[1].event = "full"
    /\ \E c \in Conns : ~Seated(c, 1) /\ out[1].to = <<"socket", c>>

\* C7: a join on a room with fewer than 2 seats gives the joining connection
\* the colour no seated connection holds (white when no seat is taken),
\* records it, leaves the other seat alone and sends player-assigned (colour,
\* mode, clock) to the joining connection only; the first joiner of a fresh
\* room gets white and the next one black.
C7_JoinAssignsFreeColor ==
    /\ \A r \in RoomIds : (Exists(r) /\ SeatCount(r) < 2) =>
          \A c \in Conns :
              LET g == games[r]
                  res == JoinResult(g, c, r)
                  seats == res.game.players
              IN  /\ DOMAIN seats = DOMAIN g.players \cup {c}
                  /\ seats[c] \in {"white", "black"}
                  /\ \A d \in DOMAIN g.players : g.players[d] # seats[c]
                  /\ (DOMAIN g.players = {}) => seats[c] = "white"
                  /\ \A d \in DOMAIN g.players \ {c} : seats[d] = g.players[d]
                  /\ Len(res.out) >= 1
                  /\ res.out[1] = [to |-> <<"socket", c>>, event |-> "player",
                                   data |-> [color |-> seats[c], mode |-> g.mode,
                                             time |-> g.time]]
                  /\ \A i \in 2..Len(res.out) : res.out[i].event # "player"
    /\ \A mode \in Modes, c \in Conns, d \in Conns :
          LET first == JoinResult(NewGame(mode, now), c, 1).game
          IN  /\ first.players[c] = "white"
              /\ c # d => JoinResult(first, d, 1).game.players[d] = "black"

\* the second seat of a room has just been given out, as black
C7_Witness ==
    /\ Exists(1)
    /\ SeatCount(1) = 2
    /\ Len(out) = 2
    /\ out[1].event = "player"
    /\ out[1].data.color = "black"
    /\ \E c \in Conns : out[1].to = <<"socket", c>> /\ Seated(c, 1)
                        /\ games[1].players[c] = "black"

\* C8: a join on a room whose two seats are taken is answered with room-full
\* to that connection only, changes no seat, and the connection holds no
\* seat in the room afterwards.
C8_FullJoinNotSeated ==
    \A r \in RoomIds : (Exists(r) /\ SeatCount(r) = 2) =>
        \A c \in Conns :
            LET res == JoinResult(games[r], c, r)
            IN  /\ res.out = <<[to |-> <<"socket", c>>, event |-> "full",
                                data |-> [flag |-> TRUE]]>>
                /\ res.game.players = games[r].players
                /\ c \notin DOMAIN res.game.players

\* the rooms in which connection c holds a seat
RoomsOf(c) == {r \in RoomIds : Seated(c, r)}

\* the places of the messages of o that go to room r
NoticesTo(o, r) == {i \in 1..Len(o) : o[i].to = <<"room", r>>}

\* C9: a disconnect removes the connection's seat in every room where it
\* holds one and emits one peer-left notice per such room, naming the colour
\* that left; in these rooms the other seat, the board, the clock and the
\* history stay as they were and the room stays in the registry; for every
\* other room nothing changes and nothing is emitted.
C9_DisconnectFrame ==
    \A c \in RegistryConns :
        LET res == DisconnectResult(games, c)
        IN  /\ Len(res.out) = Cardinality(RoomsOf(c))
            /\ \A r \in RoomIds :
                  IF Seated(c, r)
                  THEN LET g == games[r]
                           g2 == res.games[r]
                       IN  /\ g2 # Null
                           /\ DOMAIN g2.players = DOMAIN g.players \ {c}
                           /\ \A d \in DOMAIN g2.players : g2.players[d] = g.players[d]
                           /\ g2.board = g.board
                           /\ g2.time = g.time
                           /\ g2.last_move_time = g.last_move_time
                           /\ g2.move_list = g.move_list
                           /\ g2.mode = g.mode
                           /\ \E i \in 1..Len(res.out) :
                                 /\ NoticesTo(res.out, r) = {i}
                                 /\ res.out[i].event = "chat"
                                 /\ res.out[i].data = [color |-> g.players[c],
                                                       text |-> "hat verlassen"]
                  ELSE /\ res.games[r] = games[r]
                       /\ NoticesTo(res.out, r) = {}

\* a connection seated in two rooms has just left; one room keeps its other
\* seat and its history
C9_Witness ==
    /\ Len(out) = 2
    /\ \A i \in 1..2 : out[i].event = "chat" /\ out[i].data.text = "hat verlassen"
    /\ \A r \in 1..2 : Exists(r)
    /\ SeatCount(1) = 1
    /\ Len(games[1].move_list) >= 1
    /\ SeatCount(2) = 0

\* C10: every connection holds a seat in at most one room.
C10_OneRoomPerConnection ==
    \A c \in Conns : Cardinality(RoomsOf(c)) <= 1


\* C11: a join naming a room the registry does not hold is answered with a
\* not-found reply that is not the room-full signal, creates no room and
\* assigns no seat.
C11_NotFoundReply ==
    \A r \in RoomIds : ~Exists(r) =>
        \A c \in Conns :
            /\ Len(JoinMissing(c)) >= 1
            /\ \A i \in 1..Len(JoinMissing(c)) :
                  /\ JoinMissing(c)[i].to = <<"socket", c>>
                  /\ JoinMissing(c)[i].event # "full"


\* C12: creating a room never fails and stores a room with no seats, a fresh
\* board with white to move, an empty history and the clock of its mode:
\* 300 a side for blitz, 600 a side for rapid, none for every other mode.
C12_CreateRoom ==
    /\ [](\A r \in RoomIds, mode \in Modes : ENABLED Create(r, mode))
    /\ [][\A r \in RoomIds, mode \in Modes : Create(r, mode) =>
            LET g == games'[r]
            IN  /\ g # Null
                /\ DOMAIN g.players = {}
                /\ g.board = NewChess
                /\ SideToMove(g.board) = "white"
                /\ g.move_list = << >>
                /\ g.mode = mode
                /\ (mode = "blitz") => g.time = [white |-> 300, black |-> 300]
                /\ (mode = "rapid") => g.time = [white |-> 600, black |-> 600]
                /\ (mode \notin {"blitz", "rapid"}) => g.time = Null]_vars

\* a rapid room and no seat taken in it yet
C12_Witness ==
    /\ Exists(1)
    /\ games[1].mode = "rapid"
    /\ games[1].time = [white |-> 600, black |-> 600]
    /\ SeatCount(1) = 0
    /\ games[1].move_list = << >>


\* C13: a move event from a connection that holds no seat in the room, or
\* whose seat's colour is not the side to move, is ignored: board, history,
\* both remaining times, lastTick and the seats stay as they are and nothing
\* is emitted.
C13_OutOfTurnIgnored ==
    \A r \in RoomIds : Exists(r) =>
        \A c \in Conns, p \in Proposals :
            ~HasTurn(c, r) =>
                /\ AfterMove(c, r, p).game = games[r]
                /\ AfterMove(c, r, p).out = << >>

\* time has passed since lastTick in a room whose board would take a move,
\* with one connection seated out of turn and one holding no seat
C13_Witness ==
    /\ Exists(1)
    /\ games[1].time # Null
    /\ now > games[1].last_move_time
    /\ Len(games[1].move_list) >= 1
    /\ \E c \in Conns : Seated(c, 1) /\ ~HasTurn(c, 1)
    /\ \E c \in Conns : ~Seated(c, 1)
    /\ \E p \in Proposals : Accepts(1, p)


\* the move-applied broadcasts to room r among the emissions o
MovesTo(o, r) == {i \in 1..Len(o) : o[i].event = "move" /\ o[i].to = <<"room", r>>}

\* C14: every accepted move produces exactly one move-applied broadcast to
\* the room; its next_turn is the colour opposite to the mover's and the
\* board's side to move after the move, its clock snapshot is the clock after
\* the decrement, and it names the move that is the newest history entry, so
\* broadcasts come in the order of the history; no move-applied broadcast is
\* emitted for a move that was not applied.
C14_MoveBroadcast ==
    /\ [](\A r \in RoomIds : Exists(r) =>
            \A c \in Conns, p \in Proposals :
                LET g == games[r]
                    res == AfterMove(c, r, p)
                IN  IF Applied(g, res.game)
                    THEN /\ Len(res.out) = 1
                         /\ MovesTo(res.out, r) = {1}
                         /\ res.out[1].data.from = p[1]
                         /\ res.out[1].data.to = p[2]
                         /\ res.out[1].data.next_turn = OtherColor(g.players[c])
                         /\ res.out[1].data.next_turn = SideToMove(res.game.board)
                         /\ res.out[1].data.time = res.game.time
                         /\ res.out[1].data.time = ClockUpdate(g, g.players[c], now).time
                         /\ res.game.move_list[Len(res.game.move_list)].sq
                                = xy_to_uci(res.out[1].data.to)
                    ELSE \A i \in 1..Len(res.out) : res.out[i].event # "move")
    /\ [][\A r \in RoomIds :
            IF Exists(r) /\ games'[r] # Null
                 /\ Len(games'[r].move_list) = Len(games[r].move_list) + 1
            THEN /\ Len(out') = 1
                 /\ MovesTo(out', r) = {1}
                 /\ games'[r].move_list[Len(games'[r].move_list)].sq
                        = xy_to_uci(out'[1].data.to)
            ELSE MovesTo(out', r) = {}]_vars

\* black's reply has just been broadcast, a second after white's move
C14_Witness ==
    /\ Exists(1)
    /\ Len(games[1].move_list) = 2
    /\ Len(out) = 1
    /\ MovesTo(out, 1) = {1}
    /\ out[1].data.next_turn = "white"
    /\ out[1].data.time = games[1].time
    /\ out[1].data.time.black = 299


\* room r after connection c disconnects
AfterLeave(c, r) == DisconnectResult(games, c).games[r]

\* the room g2 has g's board, history, remaining times and lastTick
SameGame(g, g2) ==
    /\ g2.board = g.board
    /\ g2.move_list = g.move_list
    /\ g2.time = g.time
    /\ g2.last_move_time = g.last_move_time

\* C15 as stated: after a seated connection disconnects, the next successful
\* join on the room, by any connection, gets exactly the colour that was
\* freed and finds board, history and clock as they were before.
C15_FreedColorReassigned ==
    \A r \in RoomIds, c \in Conns : Seated(c, r) =>
        \A d \in Conns :
            LET res == JoinResult(AfterLeave(c, r), d, r)
            IN  /\ res.out[1].event = "player"
                /\ res.out[1].data.color = games[r].players[c]
                /\ res.game.players[d] = games[r].players[c]
                /\ SameGame(games[r], res.game)

\* C15 amended: after a seated connection disconnects, the next successful
\* join on the room, by any connection, gets the colour that was freed when
\* the other seat is still taken and white when the room was left empty, and
\* finds board, history and clock as they were before.
C15_FreedColorOrWhite ==
    \A r \in RoomIds, c \in Conns : Seated(c, r) =>
        \A d \in Conns :
            LET left == AfterLeave(c, r)
                res == JoinResult(left, d, r)
                color == IF DOMAIN left.players = {}
                         THEN "white" ELSE games[r].players[c]
            IN  /\ DOMAIN left.players = DOMAIN games[r].players \ {c}
                /\ res.out[1].event = "player"
                /\ res.out[1].data.color = color
                /\ res.game.players[d] = color
                /\ SameGame(games[r], left)
                /\ SameGame(games[r], res.game)

\* a connection has just taken white in a room that holds no one else, two
\* moves into the game
C15_Witness ==
    /\ Exists(1)
    /\ Len(games[1].move_list) = 2
    /\ games[1].time.white = 299
    /\ Len(out) = 2
    /\ out[1].event = "player"
    /\ out[1].data.color = "white"
    /\ SeatCount(1) = 1


\* C16: a create request never replaces or alters a room the registry
\* already holds: every existing room is the same after the step, and the
\* new id is found in the registry.
C16_CreateKeepsRooms ==
    [][\A r \in RoomIds, mode \in Modes : Create(r, mode) =>
          /\ games'[r] # Null
          /\ \A r2 \in RoomIds : Exists(r2) => games'[r2] = games[r2]]_vars


\* C17: a connection that holds a colour in a room keeps that colour for as
\* long as it stays seated, whatever join, chat or move events arrive,
\* a repeated join of its own included.
C17_ColorStable ==
    [][\A r \in RoomIds, c \in Conns :
          (Seated(c, r) /\ games'[r] # Null /\ c \in DOMAIN games'[r].players) =>
              games'[r].players[c] = games[r].players[c]]_vars


\* the times at which a repeated delivery can arrive
Redelivery == {now} \cup {now + d : d \in Deltas}

\* C18: when a move event that was just accepted is delivered again by the
\* same connection before any other event on the room, the second delivery
\* changes neither board, history nor clock (nor anything else of the room)
\* and emits nothing.
C18_DuplicateMoveIgnored ==
    \A r \in RoomIds : Exists(r) =>
        \A c \in Conns, p \in Proposals :
            (HasTurn(c, r) /\ Accepts(r, p)) =>
                LET first == AfterMove(c, r, p)
                IN  /\ Applied(games[r], first.game)
                    /\ \A t \in Redelivery :
                          MoveResult(first.game, r, c, p[1], p[2], t)
                              = [game |-> first.game, out |-> << >>]

\* a connection holds the colour to move after white's and black's first
\* moves, and the board would take a move of it
C18_Witness ==
    /\ Exists(1)
    /\ Len(games[1].move_list) = 2
    /\ games[1].time # Null
    /\ Len(out) = 1
    /\ out[1].event = "move"
    /\ \E c \in Conns, p \in Proposals : HasTurn(c, 1) /\ Accepts(1, p)
    /\ SeatCount(1) = 2


\* C19: join, chat and disconnect events change neither board, history,
\* remaining times nor lastTick of a room; lastTick is set when the room is
\* created and a join does not reset it, so the first clock update of a timed
\* room charges the mover the whole seconds since the room was created.
C19_FrameAndFirstCharge ==
    /\ \A mode \in Modes : NewGame(mode, now).last_move_time = now
    /\ \A r \in RoomIds : Exists(r) =>
          /\ born[r] <= games[r].last_move_time
          /\ \A c \in Conns :
                LET g == games[r]
                    joined == JoinResult(g, c, r).game
                IN  /\ SameGame(g, joined)
                    /\ SameGame(g, AfterLeave(c, r))
                    /\ \A msg \in Msgs : ChatResult(g, c, r, msg).game = g
                    /\ (g.time # Null /\ g.last_move_time = born[r]
                            /\ c \in DOMAIN joined.players) =>
                          \A p \in Proposals :
                              LET color == joined.players[c]
                                  moved == MoveResult(joined, r, c, p[1], p[2], now).game
                              IN  (color = SideToMove(joined.board)) =>
                                      /\ moved.time[color]
                                            = g.time[color] - ((now - born[r]) \div 1000)
                                      /\ moved.last_move_time = now

\* a connection has just taken a seat a second and more after the room was
\* created, and lastTick is still the time of creation
C19_Witness ==
    /\ Exists(1)
    /\ games[1].time # Null
    /\ now - born[1] >= 1000
    /\ games[1].last_move_time = born[1]
    /\ Len(out) = 2
    /\ out[1].event = "player"
    /\ \E c \in Conns, p \in Proposals : HasTurn(c, 1) /\ Accepts(1, p)


\* the seconds charged to both colours of the timed room g so far
Charged(g) ==
    (StartClock(g.mode).white - g.time.white) + (StartClock(g.mode).black - g.time.black)

\* the milliseconds between creation (at b) and lastTick that g's clock has
\* not charged to anyone
Shortfall(g, b) == (g.last_move_time - b) - MsPerSecond * Charged(g)

\* C20: in a timed room the time charged to both colours together never
\* exceeds the wall-clock time between the room's creation and lastTick, and
\* every clock update adds less than one second to what it falls short: a
\* step either leaves the room's clock as it is, or loses under 1000 ms, or
\* stores a new room.
C20_ClockConservation ==
    /\ [](\A r \in RoomIds : (Exists(r) /\ games[r].time # Null) =>
            /\ Charged(games[r]) >= 0
            /\ MsPerSecond * Charged(games[r]) <= games[r].last_move_time - born[r])
    /\ [][\A r \in RoomIds : (Exists(r) /\ games[r].time # Null) =>
            \/ /\ games'[r] # Null
               /\ games'[r].mode = games[r].mode
               /\ games'[r].time = games[r].time
               /\ games'[r].last_move_time = games[r].last_move_time
               /\ born'[r] = born[r]
            \/ /\ games'[r] # Null
               /\ games'[r].time # Null
               /\ LET lost == Shortfall(games'[r], born'[r]) - Shortfall(games[r], born[r])
                  IN  /\ lost >= 0
                      /\ lost < MsPerSecond
                      /\ (games'[r].last_move_time = games[r].last_move_time) => lost = 0
            \/ Created(r)]_vars

\* one second charged to white for the 1.5 s between creation and lastTick
C20_Witness ==
    /\ Exists(1)
    /\ games[1].time # Null
    /\ Charged(games[1]) = 1
    /\ games[1].time.white = 299
    /\ games[1].last_move_time - born[1] = 1500
    /\ Shortfall(games[1], born[1]) = 500

====
